---- MODULE Spec2Model ----
(***************************************************************************)
(* A state-machine model of whisper_online_ts.py: the HypothesisBuffer     *)
(* (LocalAgreement-2 commit rule) and the OnlineASRProcessor (audio window, *)
(* prompt, sentence- and segment-based scrolling).                         *)
(*                                                                         *)
(* Time is counted in ticks of 1/20 s, so that the 0.1 s slack of insert   *)
(* is 2 ticks and a timestamp can fall strictly inside it.  The audio      *)
(* buffer is an array of samples that is only ever appended to and sliced  *)
(* from the front or to a suffix: it is modelled by the range [lo, hi) of  *)
(* the positions its samples have in the whole stream fed so far.          *)
(* A timestamped word is the tuple <<start, end, text>> of the source.     *)
(***************************************************************************)
EXTENDS Integers, Sequences, FiniteSets, TLC

\* ------------------------------------------------------------------ constants

\* samples per second (OnlineASRProcessor.SAMPLING_RATE)
SAMPLING_RATE == 16000
\* ticks per second: the "1" of `abs(a - last_commited_time) < 1`
OneSecond == 20
\* the 0.1 s of `a > last_commited_time - 0.1`, in ticks
Slack == 2
\* the 30 s of `len(audio_buffer) / SAMPLING_RATE > 30`, in seconds
WindowSeconds == 30
\* the longest n-gram insert looks for
NgramMax == 5
\* the prompt size of prompt()
PromptSize == 200

\* ------------------------------------------------------------------ bounds

\* words in one transcriber result
MaxWords == 2
\* process_iter is not run once the committed log could outgrow this
MaxCommitted == 3
\* seconds of audio fed in the whole session
MaxStreamSeconds == 32

\* Python's None and a value that may be None: <<>> and <<x>>
None == <<>>
Some(x) == <<x>>

\* ------------------------------------------------------------------ strings
\* Python strings are modelled by what the code does with them: a text of the
\* vocabulary is a TLA+ string (compared by ==), and Chars gives its characters
\* for len(), startswith(), strip(), slicing and join().

LongWord == "xxxxxxxxxxxxxxxxxxxxxxxxxxxxxxxxxxxxxxxxxxxxxxxxxxxxxxxxxxxxxxxxxxxxxxxxxxxxxxxxxxxxxxxxxxxxxxxxxxxxxxxxxxxxxxxxxxxxxxxxxxxxxxxxxxxxxxxxxxxxxxxxxxxxxxxxxxxxxxxxxxxxxxxxxxxxxxxxxxxxxxxxxxxxxxxxxxxxxxxxx"

Chars(t) ==
    CASE t = "a" -> <<"a">>
      [] t = "b." -> <<"b", ".">>
      [] t = " c" -> <<" ", "c">>
      [] t = LongWord -> [i \in 1..201 |-> "x"]
      [] t = "" -> <<>>

Min(x, y) == IF x <= y THEN x ELSE y
Max(x, y) == IF x >= y THEN x ELSE y
Abs(x) == IF x >= 0 THEN x ELSE -x
SetMin(S) == CHOOSE i \in S : \A j \in S : i <= j

\* s[n:]
Drop(s, n) == SubSeq(s, Min(n, Len(s)) + 1, Len(s))

RECURSIVE LStrip(_)
LStrip(s) == IF s # <<>> /\ Head(s) = " " THEN LStrip(Tail(s)) ELSE s

RECURSIVE RStrip(_)
RStrip(s) ==
    IF s # <<>> /\ s[Len(s)] = " " THEN RStrip(SubSeq(s, 1, Len(s) - 1)) ELSE s

\* str.strip()
Strip(s) == RStrip(LStrip(s))

\* str.startswith()
StartsWith(s, w) == Len(w) <= Len(s) /\ SubSeq(s, 1, Len(w)) = w

\* sep.join(parts), on character sequences
RECURSIVE Join(_, _)
Join(sep, parts) ==
    IF parts = <<>> THEN <<>>
    ELSE IF Len(parts) = 1 THEN parts[1]
    ELSE parts[1] \o sep \o Join(sep, Tail(parts))

Texts(words) == [i \in 1..Len(words) |-> Chars(words[i][3])]

\* int(): truncation toward zero of x / d
Trunc(x, d) == IF x >= 0 THEN x \div d ELSE -((-x) \div d)

\* ------------------------------------------------------------------ HypothesisBuffer

\* HypothesisBuffer.__init__
HypothesisBufferInit ==
    [commited_in_buffer |-> <<>>, buffer |-> <<>>, new |-> <<>>,
     last_commited_time |-> 0, last_commited_word |-> None]

\* the last i texts of commited_in_buffer and the first i texts of new, each
\* joined by " ", are the same string
NgramMatch(cib, new, i) ==
    Join(<<" ">>, Texts(SubSeq(cib, Len(cib) - i + 1, Len(cib))))
        = Join(<<" ">>, Texts(SubSeq(new, 1, i)))

\* the i at which insert's loop breaks (the first i that matches), 0 when it
\* runs to its end
NgramDrop(cib, new) ==
    LET top == Min(Min(Len(cib), Len(new)), NgramMax)
        hits == {i \in 1..top : NgramMatch(cib, new, i)}
    IN IF hits = {} THEN 0 ELSE SetMin(hits)

\* HypothesisBuffer.insert(new, offset)
Insert(h, new, offset) ==
    LET shifted == [i \in 1..Len(new) |->
                        <<new[i][1] + offset, new[i][2] + offset, new[i][3]>>]
        kept == SelectSeq(shifted, LAMBDA w : w[1] > h.last_commited_time - Slack)
        n == IF /\ Len(kept) >= 1
                /\ Abs(kept[1][1] - h.last_commited_time) < OneSecond
                /\ h.commited_in_buffer # <<>>
             THEN NgramDrop(h.commited_in_buffer, kept)
             ELSE 0
    IN [h EXCEPT !.new = Drop(kept, n)]

\* a flush that commits position by position without comparing the texts
CommitLenNoCompare(new, buffer) == Min(Len(new), Len(buffer))

\* the number of words flush's loop commits: it stops at the first position
\* where new or buffer has run out, or the texts differ
RECURSIVE CommitLen(_, _)
CommitLen(new, buffer) ==
    IF new = <<>> \/ buffer = <<>> THEN 0
    ELSE IF new[1][3] = buffer[1][3] THEN 1 + CommitLen(Tail(new), Tail(buffer))
    ELSE 0

\* HypothesisBuffer.flush(): the buffer afterwards; FlushCommit is what it returns
FlushCommit(h) == SubSeq(h.new, 1, CommitLen(h.new, h.buffer))

\* a flush that leaves the whole of new in buffer, the words it committed too
FlushKeepsCommitted(h) ==
    LET commit == FlushCommit(h)
    IN [commited_in_buffer |-> h.commited_in_buffer \o commit,
        buffer |-> h.new,
        new |-> <<>>,
        last_commited_time |->
            IF commit = <<>> THEN h.last_commited_time ELSE commit[Len(commit)][2],
        last_commited_word |->
            IF commit = <<>> THEN h.last_commited_word
            ELSE Some(commit[Len(commit)][3])]

Flush(h) ==
    LET commit == FlushCommit(h)
    IN [commited_in_buffer |-> h.commited_in_buffer \o commit,
        buffer |-> Drop(h.new, Len(commit)),
        new |-> <<>>,
        last_commited_time |->
            IF commit = <<>> THEN h.last_commited_time ELSE commit[Len(commit)][2],
        last_commited_word |->
            IF commit = <<>> THEN h.last_commited_word
            ELSE Some(commit[Len(commit)][3])]

\* a pop_commited that compares the start of a word, not its end, with time
RECURSIVE PopCommitedByStart(_, _)
PopCommitedByStart(cib, time) ==
    IF cib # <<>> /\ cib[1][1] <= time THEN PopCommitedByStart(Tail(cib), time) ELSE cib

\* HypothesisBuffer.pop_commited(time)
RECURSIVE PopCommitedSeq(_, _)
PopCommitedSeq(cib, time) ==
    IF cib # <<>> /\ cib[1][2] <= time THEN PopCommitedSeq(Tail(cib), time) ELSE cib

PopCommited(h, time) ==
    [h EXCEPT !.commited_in_buffer = PopCommitedSeq(h.commited_in_buffer, time)]

\* HypothesisBuffer.complete()
Complete(h) == h.buffer

\* ------------------------------------------------------------------ collaborators

\* Segments of a transcriber result are records [end, words], the words
\* <<start, end, text>> with times local to the audio passed.

\* ts_words(segments)
RECURSIVE TsWords(_)
TsWords(segments) ==
    IF segments = <<>> THEN <<>> ELSE Head(segments).words \o TsWords(Tail(segments))

\* segments_end_ts(res)
SegmentsEndTs(res) == [i \in 1..Len(res) |-> res[i].end]

\* tokenizer.split(t): the sentence segmenter, an external collaborator.  A
\* sentence ends after a "." that a space or the end of the text follows; the
\* whitespace between two sentences belongs to neither.
RECURSIVE SplitAt(_, _, _)
SplitAt(t, from, stops) ==
    IF from > Len(t) THEN <<>>
    ELSE LET later == {i \in stops : i >= from}
         IN IF later = {} THEN <<SubSeq(t, from, Len(t))>>
            ELSE LET to == SetMin(later)
                     rest == {j \in (to + 1)..Len(t) : t[j] # " "}
                 IN <<SubSeq(t, from, to)>>
                      \o SplitAt(t, IF rest = {} THEN Len(t) + 1 ELSE SetMin(rest), stops)

TokenizerSplit(t) ==
    SplitAt(t, 1, {i \in 1..Len(t) : t[i] = "." /\ (i = Len(t) \/ t[i + 1] = " ")})

\* ------------------------------------------------------------------ OnlineASRProcessor

\* to_flush(sents, sep, offset)
ToFlush(sents, sep, offset) ==
    IF sents = <<>> THEN <<None, None, Join(sep, Texts(sents))>>
    ELSE <<Some(offset + sents[1][1]), Some(offset + sents[Len(sents)][2]),
           Join(sep, Texts(sents))>>

\* prompt(): the index k the committed log is split at
RECURSIVE PromptSplit(_, _, _)
PromptSplit(commited, last_chunked_at, k) ==
    IF k > 0 /\ commited[k][2] > last_chunked_at
    THEN PromptSplit(commited, last_chunked_at, k - 1)
    ELSE k

PromptK(commited, last_chunked_at) ==
    PromptSplit(commited, last_chunked_at, Max(0, Len(commited) - 1))

\* prompt(): the texts popped from the end of p while l < 200, in popping order
RECURSIVE PromptTake(_, _)
PromptTake(p, l) ==
    IF p # <<>> /\ l < PromptSize
    THEN LET x == p[Len(p)]
         IN <<x>> \o PromptTake(SubSeq(p, 1, Len(p) - 1), l + Len(x) + 1)
    ELSE <<>>

Reverse(s) == [i \in 1..Len(s) |-> s[Len(s) + 1 - i]]

\* prompt(): <<prompt, context>>
Prompt(commited, last_chunked_at) ==
    LET k == PromptK(commited, last_chunked_at)
        taken == PromptTake(Texts(SubSeq(commited, 1, k)), 0)
    IN <<Join(<<>>, Reverse(taken)), Join(<<>>, Texts(Drop(commited, k)))>>

\* words_to_sentences: the inner loop over cwords for one sentence `sent`.
\* Gives the words left and the sentence emitted, if one is.
RECURSIVE SentenceWalk(_, _, _, _)
SentenceWalk(cwords, sent, beg, fsent) ==
    IF cwords = <<>> THEN [cwords |-> <<>>, out |-> <<>>]
    ELSE LET w == Chars(cwords[1][3])
         IN IF beg = None /\ StartsWith(sent, w)
            THEN SentenceWalk(Tail(cwords), Strip(Drop(sent, Len(w))),
                              Some(cwords[1][1]), fsent)
            ELSE IF sent = w
            THEN [cwords |-> Tail(cwords), out |-> << <<beg, cwords[1][2], fsent>> >>]
            ELSE SentenceWalk(Tail(cwords), Strip(Drop(sent, Len(w))), beg, fsent)

\* words_to_sentences: the outer loop over the sentences s
RECURSIVE SentencesWalk(_, _)
SentencesWalk(s, cwords) ==
    IF s = <<>> THEN <<>>
    ELSE LET sent == Strip(Head(s))
             r == SentenceWalk(cwords, sent, None, sent)
         IN r.out \o SentencesWalk(Tail(s), r.cwords)

\* words_to_sentences(words)
WordsToSentences(words) ==
    SentencesWalk(TokenizerSplit(Join(<<" ">>, Texts(words))), words)

\* audio_buffer[n:] on the range [lo, hi) of stream positions
AudioSlice(audio, n) ==
    LET len == audio.hi - audio.lo
        dropped == IF n >= 0 THEN Min(n, len) ELSE Max(len + n, 0)
    IN [lo |-> audio.lo + dropped, hi |-> audio.hi]

AudioLen(audio) == audio.hi - audio.lo

\* chunk_at(time), on the processor p
ChunkAt(p, time) ==
    LET cut_seconds == time - p.buffer_time_offset
    IN [p EXCEPT
          !.transcript_buffer = PopCommited(p.transcript_buffer, time),
          !.audio_buffer = AudioSlice(p.audio_buffer, Trunc(cut_seconds, OneSecond) * SAMPLING_RATE),
          !.buffer_time_offset = time,
          !.last_chunked_at = time]

\* a chunk_completed_sentence that scrolls at the end of the last sentence
SentenceChunkTimeLast(p) ==
    IF p.commited = <<>> THEN None
    ELSE LET sents == WordsToSentences(p.commited)
         IN IF Len(sents) < 2 THEN None ELSE Some(sents[Len(sents)][2])

\* chunk_completed_sentence: the time it scrolls at, None when it returns early
SentenceChunkTime(p) ==
    IF p.commited = <<>> THEN None
    ELSE LET sents == WordsToSentences(p.commited)
         IN IF Len(sents) < 2 THEN None ELSE Some(sents[Len(sents) - 1][2])

\* chunk_completed_sentence()
ChunkCompletedSentence(p) ==
    LET t == SentenceChunkTime(p)
    IN IF t = None THEN p ELSE ChunkAt(p, t[1])

\* a chunk_completed_segment that looks at the second-to-last end only
SegmentWalkNoPop(ends, offset, t) == ends[Len(ends) - 1] + offset

\* chunk_completed_segment: the walk back over ends
RECURSIVE SegmentWalk(_, _, _)
SegmentWalk(ends, offset, t) ==
    LET e == ends[Len(ends) - 1] + offset
    IN IF Len(ends) > 2 /\ e > t
       THEN SegmentWalk(SubSeq(ends, 1, Len(ends) - 1), offset, t)
       ELSE e

\* a chunk_completed_segment that scrolls at the segment end its walk stopped
\* at without comparing it with the end of the last committed word
SegmentChunkTimeUnguarded(p, res) ==
    IF p.commited = <<>> THEN None
    ELSE LET ends == SegmentsEndTs(res)
         IN IF Len(ends) > 1
            THEN Some(SegmentWalk(ends, p.buffer_time_offset, p.commited[Len(p.commited)][2]))
            ELSE None

\* chunk_completed_segment: the time it scrolls at, None when it does not
SegmentChunkTime(p, res) ==
    IF p.commited = <<>> THEN None
    ELSE LET ends == SegmentsEndTs(res)
             t == p.commited[Len(p.commited)][2]
         IN IF Len(ends) > 1
            THEN LET e == SegmentWalk(ends, p.buffer_time_offset, t)
                 IN IF e <= t THEN Some(e) ELSE None
            ELSE None

\* chunk_completed_segment(res)
ChunkCompletedSegment(p, res) ==
    LET e == SegmentChunkTime(p, res)
    IN IF e = None THEN p ELSE ChunkAt(p, e[1])

\* len(self.audio_buffer) / self.SAMPLING_RATE > 30
TooLong(p) == AudioLen(p.audio_buffer) > WindowSeconds * SAMPLING_RATE

\* ------------------------------------------------------------------ state

VARIABLES
    audio_buffer,        \* OnlineASRProcessor.audio_buffer, as [lo, hi)
    buffer_time_offset,  \* OnlineASRProcessor.buffer_time_offset, in ticks
    transcript_buffer,   \* OnlineASRProcessor.transcript_buffer, a HypothesisBuffer
    commited,            \* OnlineASRProcessor.commited
    last_chunked_at,     \* OnlineASRProcessor.last_chunked_at, in ticks
    last,                \* what the last call did and gave back (observation only)
    emitted              \* the words the calls so far gave back, in call order

vars == <<audio_buffer, buffer_time_offset, transcript_buffer, commited,
          last_chunked_at, last, emitted>>

\* the fields of the processor
state == <<audio_buffer, buffer_time_offset, transcript_buffer, commited,
           last_chunked_at>>

Self == [audio_buffer |-> audio_buffer,
         buffer_time_offset |-> buffer_time_offset,
         transcript_buffer |-> transcript_buffer,
         commited |-> commited,
         last_chunked_at |-> last_chunked_at]

Assign(p) ==
    /\ audio_buffer' = p.audio_buffer
    /\ buffer_time_offset' = p.buffer_time_offset
    /\ transcript_buffer' = p.transcript_buffer
    /\ commited' = p.commited
    /\ last_chunked_at' = p.last_chunked_at

\* the observation of a call that did not reach the hypothesis buffer
Quiet(op) ==
    [op |-> op, o |-> <<>>, new |-> <<>>, ret |-> ToFlush(<<>>, <<>>, 0),
     chunks |-> <<>>, long |-> FALSE, covered |-> FALSE]

\* OnlineASRProcessor.init()
Init ==
    /\ audio_buffer = [lo |-> 0, hi |-> 0]
    /\ buffer_time_offset = 0
    /\ transcript_buffer = HypothesisBufferInit
    /\ commited = <<>>
    /\ last_chunked_at = 0
    /\ last = Quiet("init")
    /\ emitted = <<>>

\* ------------------------------------------------------------------ inputs

\* seconds of audio in one chunk fed by the driver
ChunkSeconds == {16}

\* the <<start, end>> a transcriber gives a word, in ticks local to the audio
LocalSpans == {<<0, 20>>, <<19, 19>>, <<20, 40>>}

\* the texts a transcriber gives a word
Vocab == {"a", "b."}
VocabLong == {"a", LongWord}

\* the words a transcriber can give
LocalWords(vocab) == {<<s[1], s[2], t>> : s \in LocalSpans, t \in vocab}

\* a transcriber gives its words in time order: each starts no earlier than
\* the one before it ends
InOrder(ws) == \A i \in 1..(Len(ws) - 1) : ws[i][2] <= ws[i + 1][1]

WordSeqs(vocab) ==
    {ws \in UNION {[1..n -> LocalWords(vocab)] : n \in 0..MaxWords} : InOrder(ws)}

\* the words ws cut into segments after the positions in cuts; a segment ends
\* where its last word ends
RECURSIVE Segments(_, _, _)
Segments(ws, cuts, from) ==
    IF from > Len(ws) THEN <<>>
    ELSE LET later == {c \in cuts : c >= from /\ c < Len(ws)}
             to == IF later = {} THEN Len(ws) ELSE SetMin(later)
         IN <<[end |-> ws[to][2], words |-> SubSeq(ws, from, to)]>>
                \o Segments(ws, cuts, to + 1)

\* the results asr.transcribe can give, whatever the audio
AllResults(vocab) ==
    {Segments(ws, cuts, 1) : ws \in WordSeqs(vocab), cuts \in SUBSET (1..(MaxWords - 1))}

ResultsVocab == AllResults(Vocab)
ResultsVocabLong == AllResults(VocabLong)

\* the results asr.transcribe can give for the audio buffer: no timestamp lies
\* beyond the end of the audio
Fits(res, audio) ==
    \A i \in 1..Len(res) : res[i].end * SAMPLING_RATE <= AudioLen(audio) * OneSecond

\* ------------------------------------------------------------------ operations

\* insert_audio_chunk(audio), audio of n samples
InsertAudioChunk(n) ==
    /\ audio_buffer.hi + n <= MaxStreamSeconds * SAMPLING_RATE
    /\ audio_buffer' = [audio_buffer EXCEPT !.hi = @ + n]
    /\ last' = Quiet("insert_audio_chunk")
    /\ UNCHANGED <<buffer_time_offset, transcript_buffer, commited, last_chunked_at,
                   emitted>>

\* process_iter: `self.commited.extend(o)`, h the hypothesis buffer flushed
Committing(p, h, o) == [p EXCEPT !.transcript_buffer = h, !.commited = p.commited \o o]

\* process_iter: `if o: self.chunk_completed_sentence()`
SentenceStep(p, o) == IF o # <<>> THEN ChunkCompletedSentence(p) ELSE p

\* process_iter: `if len(audio_buffer)/SAMPLING_RATE > 30: chunk_completed_segment(res)`
SegmentStep(p, res) == IF TooLong(p) THEN ChunkCompletedSegment(p, res) ELSE p

\* the chunk_at calls of one process_iter, for the observation: p1 is the
\* processor before the sentence step, p2 before the segment step
ChunkLog(p1, p2, o, res) ==
    LET t1 == IF o # <<>> THEN SentenceChunkTime(p1) ELSE None
        t2 == IF TooLong(p2) THEN SegmentChunkTime(p2, res) ELSE None
    IN (IF t1 = None THEN <<>>
        ELSE <<[by |-> "sentence", time |-> t1[1], from |-> p1.buffer_time_offset,
                len |-> AudioLen(p1.audio_buffer)]>>)
       \o
       (IF t2 = None THEN <<>>
        ELSE <<[by |-> "segment", time |-> t2[1], from |-> p2.buffer_time_offset,
                len |-> AudioLen(p2.audio_buffer)]>>)

\* some segment of res ends, on the global time line of the window it was
\* transcribed from, at or before the end of the last committed word of p1
Covered(p1, res) ==
    /\ p1.commited # <<>>
    /\ \E i \in 1..Len(res) :
          res[i].end + buffer_time_offset <= p1.commited[Len(p1.commited)][2]

\* process_iter() on the processor p, the transcriber giving res: the stages
\* of the call, and the processor it leaves
Proposed(p, res) == Insert(p.transcript_buffer, TsWords(res), p.buffer_time_offset)

Extended(p, res) ==
    LET h1 == Proposed(p, res)
    IN Committing(p, Flush(h1), FlushCommit(h1))

Sentenced(p, res) ==
    LET h1 == Proposed(p, res)
        o == FlushCommit(h1)
    IN SentenceStep(Committing(p, Flush(h1), o), o)

ProcessIterOn(p, res) == SegmentStep(Sentenced(p, res), res)

\* what process_iter() does and gives back, the transcriber giving res
ProcessIterLast(res) ==
    LET h1 == Proposed(Self, res)
        o == FlushCommit(h1)
        p1 == Committing(Self, Flush(h1), o)
        p2 == SentenceStep(p1, o)
    IN [op |-> "process_iter", o |-> o, new |-> h1.new,
        ret |-> ToFlush(o, <<>>, 0), chunks |-> ChunkLog(p1, p2, o, res),
        long |-> TooLong(Self), covered |-> Covered(p1, res)]

\* process_iter(), the transcriber giving res
ProcessIter(res) ==
    /\ Assign(ProcessIterOn(Self, res))
    /\ last' = ProcessIterLast(res)
    /\ emitted' = emitted \o last'.o

\* a process_iter that clears the pending proposal before it calls the
\* transcriber, which raises
ProcessIterRaisesAfterClearing ==
    /\ transcript_buffer' = [transcript_buffer EXCEPT !.buffer = <<>>]
    /\ last' = Quiet("transcriber_raised")
    /\ UNCHANGED <<audio_buffer, buffer_time_offset, commited, last_chunked_at, emitted>>

\* process_iter(), asr.transcribe raising
ProcessIterTranscriberRaises ==
    /\ last' = Quiet("transcriber_raised")
    /\ UNCHANGED <<state, emitted>>

\* process_iter(), tokenizer.split raising inside chunk_completed_sentence:
\* the exception leaves process_iter after `self.commited.extend(o)`
ProcessIterSegmenterRaises(res) ==
    LET h1 == Insert(transcript_buffer, TsWords(res), buffer_time_offset)
        o == FlushCommit(h1)
    IN /\ o # <<>>
       /\ Assign(Committing(Self, Flush(h1), o))
       /\ last' = [Quiet("segmenter_raised") EXCEPT !.o = o, !.new = h1.new]
       /\ UNCHANGED emitted

\* the results tried in a state: those that fit the audio and keep the
\* committed log within cap words
Tried(results, cap) ==
    {res \in results : Fits(res, audio_buffer)
                       /\ Len(commited) + Len(TsWords(res)) <= cap}

Next ==
    \/ \E s \in ChunkSeconds : InsertAudioChunk(s * SAMPLING_RATE)
    \/ \E res \in Tried(ResultsVocab, MaxCommitted) : ProcessIter(res)
    \/ \E res \in Tried(ResultsVocab, MaxCommitted) : ProcessIterSegmenterRaises(res)

\* A transcriber failure changes no field of the processor, so Next leaves it
\* out; NextFail has it, to observe it.
Spec == Init /\ [][Next]_vars

NextFail ==
    \/ \E s \in ChunkSeconds : InsertAudioChunk(s * SAMPLING_RATE)
    \/ \E res \in Tried(ResultsVocab, MaxCommitted - 1) : ProcessIter(res)
    \/ ProcessIterTranscriberRaises
    \/ \E res \in Tried(ResultsVocab, MaxCommitted - 1) : ProcessIterSegmenterRaises(res)

SpecFail == Init /\ [][NextFail]_vars

\* Sessions in which neither collaborator fails, followed one word further.
NextDeep ==
    \/ \E s \in ChunkSeconds : InsertAudioChunk(s * SAMPLING_RATE)
    \/ \E res \in Tried(ResultsVocab, MaxCommitted + 1) : ProcessIter(res)

SpecDeep == Init /\ [][NextDeep]_vars

\* Sessions in which neither collaborator fails and a word can be long.
NextLong ==
    \/ \E s \in ChunkSeconds : InsertAudioChunk(s * SAMPLING_RATE)
    \/ \E res \in Tried(ResultsVocabLong, MaxCommitted - 1) : ProcessIter(res)

SpecLong == Init /\ [][NextLong]_vars

\* the results of one segment
ResultsOneSegment == {Segments(ws, {}, 1) : ws \in WordSeqs(Vocab)}

\* Sessions in which neither collaborator fails and every result is one
\* segment, followed one word further: two sentences of two words can commit.
NextSentence ==
    \/ \E s \in ChunkSeconds : InsertAudioChunk(s * SAMPLING_RATE)
    \/ \E res \in Tried(ResultsOneSegment, MaxCommitted + 1) : ProcessIter(res)

SpecSentence == Init /\ [][NextSentence]_vars

\* word timestamps that let three segments end at three different times
SegmentSpans == LocalSpans \cup {<<40, 40>>}

SegmentWords == {<<s[1], s[2], "a">> : s \in SegmentSpans}

\* results of up to MaxWords + 1 words of one text, cut into segments anywhere
ResultsSegmented ==
    {Segments(ws, cuts, 1) :
        ws \in {w \in UNION {[1..n -> SegmentWords] : n \in 0..(MaxWords + 1)} : InOrder(w)},
        cuts \in SUBSET (1..MaxWords)}

\* process_iter(), the transcriber giving res, seen with the segment ends of
\* res and the processor as the length check of the call found it
ProcessIterSeen(res) ==
    /\ Assign(ProcessIterOn(Self, res))
    /\ last' = ProcessIterLast(res)
                  @@ [ends |-> SegmentsEndTs(res), before |-> Sentenced(Self, res)]
    /\ emitted' = emitted \o last'.o

\* Sessions in which neither collaborator fails and a result can have three
\* segments.
NextSegments ==
    \/ \E s \in ChunkSeconds : InsertAudioChunk(s * SAMPLING_RATE)
    \/ \E res \in Tried(ResultsSegmented, MaxCommitted) : ProcessIterSeen(res)

SpecSegments == Init /\ [][NextSegments]_vars

\* a finish that hands the pending proposal over and clears it
FinishClearing ==
    /\ last' = [Quiet("finish") EXCEPT !.ret = ToFlush(Complete(transcript_buffer), <<>>, 0)]
    /\ transcript_buffer' = [transcript_buffer EXCEPT !.buffer = <<>>]
    /\ UNCHANGED <<audio_buffer, buffer_time_offset, commited, last_chunked_at, emitted>>

\* finish()
Finish ==
    /\ last' = [Quiet("finish") EXCEPT !.ret = ToFlush(Complete(transcript_buffer), <<>>, 0)]
    /\ UNCHANGED <<state, emitted>>

\* Sessions in which neither collaborator fails and finish is called.
NextFinish ==
    \/ \E s \in ChunkSeconds : InsertAudioChunk(s * SAMPLING_RATE)
    \/ \E res \in Tried(ResultsVocab, MaxCommitted - 1) : ProcessIter(res)
    \/ Finish

SpecFinish == Init /\ [][NextFinish]_vars

\* ------------------------------------------------------------------ words_to_sentences alone

\* the texts of words as the transcriber gives them: ts_words does not strip
\* the space a text can begin with
ProjectVocab == {"a", "b.", " c"}

\* the non-empty word sequences passed to words_to_sentences
ProjectInputs ==
    {ws \in UNION {[1..n -> LocalWords(ProjectVocab)] : n \in 1..(MaxWords + 1)} :
        InOrder(ws)}

\* words_to_sentences(words) with a tokenizer whose split(t) gives the one
\* sentence t
ProjectSingle(words) == SentencesWalk(<<Join(<<" ">>, Texts(words))>>, words)

\* a fresh processor and, in last.new, the words to project
InitProject ==
    /\ audio_buffer = [lo |-> 0, hi |-> 0]
    /\ buffer_time_offset = 0
    /\ transcript_buffer = HypothesisBufferInit
    /\ commited = <<>>
    /\ last_chunked_at = 0
    /\ \E ws \in ProjectInputs : last = [Quiet("words") EXCEPT !.new = ws]
    /\ emitted = <<>>

\* words_to_sentences(last.new): the sentences are left in last.o
Project ==
    /\ last.op = "words"
    /\ last' = [last EXCEPT !.op = "words_to_sentences", !.o = ProjectSingle(last.new)]
    /\ UNCHANGED <<state, emitted>>

SpecProject == InitProject /\ [][Project]_vars

\* ------------------------------------------------------------------ properties

IsPrefix(s, t) == Len(s) <= Len(t) /\ SubSeq(t, 1, Len(s)) = s

\* C1 -- LocalAgreement-2: the words a process_iter commits are appended to the
\* log, and the i-th of them has the text of the i-th word of the pending
\* proposal (buffer, as the call found it) and of the i-th word of the call's
\* own proposal (new, after insert); so nothing commits while buffer is empty.
LocalAgreement2 ==
    [][/\ last'.op \in {"process_iter", "segmenter_raised"} => commited' = commited \o last'.o
       /\ \A i \in 1..Len(last'.o) :
            /\ i <= Len(transcript_buffer.buffer)
            /\ transcript_buffer.buffer[i][3] = last'.o[i][3]
            /\ i <= Len(last'.new)
            /\ last'.new[i][3] = last'.o[i][3]]_vars

\* a call committed a word and stopped at a proposed word the buffer did not back
LocalAgreement2Witness ==
    /\ last.op = "process_iter"
    /\ last.o # <<>>
    /\ Len(last.new) > Len(last.o)

\* C2 -- Monotonic commit: the words the calls gave back, in call order, are a
\* prefix of the committed log, and are the whole log after a call that
\* returned.
MonotonicCommit ==
    /\ IsPrefix(emitted, commited)
    /\ last.op = "process_iter" => emitted = commited

\* C3 -- Time monotonicity: the end times of the committed words never
\* decrease along the log, and last_commited_time is the last of them.
TimeMonotonic ==
    /\ \A i \in 1..(Len(commited) - 1) : commited[i][2] <= commited[i + 1][2]
    /\ commited # <<>> =>
           transcript_buffer.last_commited_time = commited[Len(commited)][2]

\* C4 -- No retractions: a step leaves in commited_in_buffer, in order, the
\* words that were there and the words it committed, less a prefix of words
\* each ending at or before a time the step called chunk_at (pop_commited) with.
NoRetraction ==
    [][LET all == transcript_buffer.commited_in_buffer \o last'.o
       IN \E k \in 0..Len(all) :
            /\ transcript_buffer'.commited_in_buffer = SubSeq(all, k + 1, Len(all))
            /\ \A i \in 1..k : \E j \in DOMAIN last'.chunks :
                   all[i][2] <= last'.chunks[j].time]_vars

\* a scroll popped some committed words and left a later one in place
NoRetractionWitness ==
    /\ last.chunks # <<>>
    /\ transcript_buffer.commited_in_buffer # <<>>
    /\ \E i \in DOMAIN commited : commited[i][2] <= last_chunked_at

\* C5 -- Offset never decreases: no step lowers buffer_time_offset.
OffsetNonDecreasing ==
    [][buffer_time_offset' >= buffer_time_offset]_vars

\* C6 -- Every chunk_at strictly advances the window: each chunk_at a
\* process_iter made was given a time beyond the offset it found.
ChunkAtStrictlyAdvances ==
    \A j \in DOMAIN last.chunks : last.chunks[j].time > last.chunks[j].from

\* C7 -- Audio window time alignment: the first sample of the window, by its
\* position in the stream, lies at the global time buffer_time_offset.
WindowAligned ==
    audio_buffer.lo * OneSecond = buffer_time_offset * SAMPLING_RATE

\* C8 -- Prompt bound: the prompt a process_iter would pass to the transcriber
\* has at most 200 characters.
PromptBound ==
    Len(Prompt(commited, last_chunked_at)[1]) <= PromptSize

\* C9 -- Bounded window, as claimed: after a process_iter that found the window
\* longer than 30 s and got a segment end at or before the end of the last
\* committed word, the window is at most 30 s long.
BoundedWindow ==
    (last.op = "process_iter" /\ last.long /\ last.covered)
        => AudioLen(audio_buffer) <= WindowSeconds * SAMPLING_RATE

\* C9, amended -- a segment-based scroll is the last chunk_at of its call, is
\* made only on a window longer than 30 s, at a time e that is no earlier than
\* the offset and no later than the end of the last committed word; after it
\* the offset and last_chunked_at are e, and the window has lost int(e - offset)
\* whole seconds from its front (all of it, if it held no more).
SegmentScrollEffect ==
    \A j \in DOMAIN last.chunks :
        LET c == last.chunks[j]
        IN c.by = "segment" =>
            /\ j = Len(last.chunks)
            /\ c.len > WindowSeconds * SAMPLING_RATE
            /\ c.from <= c.time
            /\ c.time <= commited[Len(commited)][2]
            /\ buffer_time_offset = c.time
            /\ last_chunked_at = c.time
            /\ AudioLen(audio_buffer)
                 = Max(0, c.len - Trunc(c.time - c.from, OneSecond) * SAMPLING_RATE)
            /\ AudioLen(audio_buffer) <= c.len

\* a segment-based scroll that left the window longer than 30 s
SegmentScrollWitness ==
    /\ \E j \in DOMAIN last.chunks : last.chunks[j].by = "segment"
    /\ last.long /\ last.covered
    /\ AudioLen(audio_buffer) > WindowSeconds * SAMPLING_RATE

\* C10 -- Transcriber failure is state-preserving: a process_iter in which the
\* transcriber raises leaves every field of the processor as it was.
TranscriberFailureKeepsState ==
    [][last'.op = "transcriber_raised" => state' = state]_vars

\* the transcriber raised with a proposal pending and words committed
TranscriberFailureWitness ==
    /\ last.op = "transcriber_raised"
    /\ transcript_buffer.buffer # <<>>
    /\ commited # <<>>

\* C11 -- Segmenter failure is absorbed: a process_iter in which the sentence
\* segmenter raises makes no scroll, keeps the words it committed in commited,
\* and gives them back to the caller.
SegmenterFailureAbsorbed ==
    [][last'.op = "segmenter_raised" =>
          /\ last'.chunks = <<>>
          /\ commited' = commited \o last'.o
          /\ emitted' = emitted \o last'.o
          /\ last'.ret = ToFlush(last'.o, <<>>, 0)]_vars

\* C12 -- Sentence projection round-trip: for non-empty words W and a segmenter
\* that gives the single sentence " ".join of their texts, words_to_sentences
\* emits exactly one sentence, from the start of W[0] to the end of W[-1].
ProjectionRoundTrip ==
    last.op = "words_to_sentences" =>
        /\ Len(last.o) = 1
        /\ last.o[1][1] = Some(last.new[1][1])
        /\ last.o[1][2] = last.new[Len(last.new)][2]

\* the texts of words one after another, nothing between them
RECURSIVE Concat(_)
Concat(words) == IF words = <<>> THEN <<>> ELSE Chars(words[1][3]) \o Concat(Tail(words))

\* C13 -- Commit rule of flush: the words a process_iter commits are the longest
\* common prefix, by text, of its proposal (new) and the pending proposal
\* (buffer); afterwards buffer is the rest of new and new is empty; the call
\* returns (None, None, "") when it commits nothing, and otherwise the start of
\* the first committed word, the end of the last and their texts concatenated.
FlushCommitRule ==
    [][last'.op = "process_iter" =>
          LET new == last'.new
              buf == transcript_buffer.buffer
              o == last'.o
              n == Len(o)
          IN /\ n <= Len(new) /\ n <= Len(buf)
             /\ o = SubSeq(new, 1, n)
             /\ \A i \in 1..n : new[i][3] = buf[i][3]
             /\ (n < Len(new) /\ n < Len(buf)) => new[n + 1][3] # buf[n + 1][3]
             /\ transcript_buffer'.buffer = SubSeq(new, n + 1, Len(new))
             /\ transcript_buffer'.new = <<>>
             /\ last'.ret = IF n = 0 THEN <<None, None, <<>>>>
                            ELSE <<Some(o[1][1]), Some(o[n][2]), Concat(o)>>]_vars

\* a call committed a prefix of its proposal, returned it, and left the rest
\* of the proposal pending
FlushCommitRuleWitness ==
    /\ last.op = "process_iter"
    /\ last.ret[1] # None
    /\ transcript_buffer.buffer # <<>>
    /\ transcript_buffer.buffer = SubSeq(last.new, Len(last.o) + 1, Len(last.new))

\* C14 -- finish is a pure read of the uncommitted tail: finish() returns the
\* pending proposal (buffer) formatted -- (None, None, "") when it is empty,
\* otherwise the start of its first word, the end of its last and the texts
\* concatenated -- and leaves every field of the processor as it was.
FinishIsPureRead ==
    [][last'.op = "finish" =>
          LET b == transcript_buffer.buffer
          IN /\ state' = state
             /\ last'.ret = IF b = <<>> THEN <<None, None, <<>>>>
                            ELSE <<Some(b[1][1]), Some(b[Len(b)][2]), Concat(b)>>]_vars

\* finish was called with a proposal pending and words committed
FinishIsPureReadWitness ==
    /\ last.op = "finish"
    /\ last.ret[1] # None
    /\ transcript_buffer.buffer # <<>>
    /\ commited # <<>>

SetMax(S) == CHOOSE i \in S : \A j \in S : i >= j

\* C15 -- N-gram dedup picks the largest overlap: whatever the transcriber
\* gives, when the first word insert keeps starts within 1 s of
\* last_commited_time and commited_in_buffer is not empty, insert drops from the
\* front of new the largest number i (up to 5) of words whose texts are the
\* last i texts of commited_in_buffer, and none when there is no such i.
NgramLargestOverlap ==
    \A res \in {r \in ResultsVocab : Fits(r, audio_buffer)} :
        LET h == transcript_buffer
            cib == h.commited_in_buffer
            words == TsWords(res)
            shifted == [i \in 1..Len(words) |->
                          <<words[i][1] + buffer_time_offset,
                            words[i][2] + buffer_time_offset, words[i][3]>>]
            kept == SelectSeq(shifted, LAMBDA w : w[1] > h.last_commited_time - Slack)
            overlaps == {i \in 1..Min(Min(Len(cib), Len(kept)), NgramMax) :
                            \A j \in 1..i : cib[Len(cib) - i + j][3] = kept[j][3]}
        IN (/\ kept # <<>>
            /\ Abs(kept[1][1] - h.last_commited_time) < OneSecond
            /\ cib # <<>>)
           => Insert(h, words, buffer_time_offset).new
                = Drop(kept, IF overlaps = {} THEN 0 ELSE SetMax(overlaps))

IsSuffix(s, t) == Len(s) <= Len(t) /\ SubSeq(t, Len(t) - Len(s) + 1, Len(t)) = s

\* C16 -- Prompt split index: prompt() splits the committed log at the largest
\* k that is 0 or has commited[k-1] ending at or before last_chunked_at (so at
\* the whole log when its last word ends at or before last_chunked_at); the
\* prompt is taken from the end of the texts before k, and the context is the
\* texts from k on.
PromptSplitIndex ==
    LET k == SetMax({i \in 0..Len(commited) :
                        i = 0 \/ commited[i][2] <= last_chunked_at})
        r == Prompt(commited, last_chunked_at)
    IN /\ PromptK(commited, last_chunked_at) = k
       /\ IsSuffix(r[1], Concat(SubSeq(commited, 1, k)))
       /\ r[2] = Concat(Drop(commited, k))

\* C17 -- Sentence-based scrolling: a process_iter makes a sentence scroll only
\* if it committed a word; when it did and the committed log projects to
\* n >= 2 sentences, its first chunk_at is the sentence scroll, at the end of
\* sentence n-1: last_chunked_at and the offset are then that time (unless a
\* segment scroll follows in the same call) and commited_in_buffer begins with
\* no word ending at or before it; when the log projects to fewer than 2
\* sentences there is no sentence scroll, and with no scroll at all the window,
\* the offset and last_chunked_at are unchanged and commited_in_buffer only
\* gains the committed words.
SentenceScroll ==
    [][last'.op = "process_iter" =>
          LET sents == WordsToSentences(commited')
              n == Len(sents)
              chunks == last'.chunks
              by_sentence == {j \in DOMAIN chunks : chunks[j].by = "sentence"}
              cib == transcript_buffer'.commited_in_buffer
          IN /\ by_sentence # {} => last'.o # <<>>
             /\ (last'.o # <<>> /\ n >= 2) =>
                   /\ by_sentence = {1}
                   /\ chunks[1].time = sents[n - 1][2]
                   /\ Len(chunks) = 1 =>
                         /\ buffer_time_offset' = chunks[1].time
                         /\ last_chunked_at' = chunks[1].time
                   /\ cib = <<>> \/ cib[1][2] > chunks[1].time
             /\ (last'.o = <<>> \/ n < 2) =>
                   /\ by_sentence = {}
                   /\ chunks = <<>> =>
                         /\ audio_buffer' = audio_buffer
                         /\ buffer_time_offset' = buffer_time_offset
                         /\ last_chunked_at' = last_chunked_at
                         /\ cib = transcript_buffer.commited_in_buffer \o last'.o]_vars

\* a call committed a word that completed a second sentence, and scrolled at
\* the end of the sentence before it, popping the words of that sentence
SentenceScrollWitness ==
    /\ last.op = "process_iter"
    /\ Len(last.chunks) = 1
    /\ last.chunks[1].by = "sentence"
    /\ last_chunked_at = last.chunks[1].time
    /\ Len(transcript_buffer.commited_in_buffer) < Len(commited)

\* C18 -- Length-based scrolling target: a process_iter whose window is longer
\* than 30 s at its length check scrolls at the latest segment end of the
\* result, the final segment left out and the ends shifted by the offset, that
\* is at or before the end of the last committed word: the offset and
\* last_chunked_at become that time.  When there is none (also with fewer than
\* 2 segments, or nothing committed) it changes no field of the processor.
SegmentScrollTarget ==
    (last.op = "process_iter" /\ TooLong(last.before)) =>
        LET p == last.before
            ends == last.ends
            targets == IF p.commited = <<>> THEN {}
                       ELSE {ends[i] + p.buffer_time_offset : i \in 1..(Len(ends) - 1)}
                              \cap 0..p.commited[Len(p.commited)][2]
        IN IF targets = {} THEN Self = p
           ELSE /\ last.chunks # <<>>
                /\ last.chunks[Len(last.chunks)].by = "segment"
                /\ last.chunks[Len(last.chunks)].time = SetMax(targets)
                /\ buffer_time_offset = SetMax(targets)
                /\ last_chunked_at = SetMax(targets)

\* a length-based scroll that walked back over a segment end beyond the
\* committed words to an earlier one
SegmentScrollTargetWitness ==
    /\ last.op = "process_iter"
    /\ TooLong(last.before)
    /\ Len(last.ends) = 3
    /\ commited # <<>>
    /\ last.ends[2] + last.before.buffer_time_offset > commited[Len(commited)][2]
    /\ last.chunks # <<>>
    /\ last.chunks[Len(last.chunks)].by = "segment"
    /\ last_chunked_at = last.ends[1] + last.before.buffer_time_offset

\* C19 -- No unprocessed audio is discarded by a scroll: each chunk_at of a
\* process_iter is given a time at or after the offset it finds, and takes from
\* the window no more than the samples of the time - offset seconds in between.
NoAudioDiscarded ==
    \A j \in DOMAIN last.chunks :
        LET c == last.chunks[j]
            left == IF j < Len(last.chunks) THEN last.chunks[j + 1].len
                    ELSE AudioLen(audio_buffer)
        IN /\ c.time >= c.from
           /\ (c.len - left) * OneSecond <= (c.time - c.from) * SAMPLING_RATE

Count(w, s) == Cardinality({i \in DOMAIN s : s[i] = w})

\* C20 -- Stable hypotheses get committed: whatever result the transcriber
\* gives, if it gives it to two process_iter calls in a row and the first
\* leaves the offset where it was, then after the second no proposal is
\* pending, and the two calls have committed no word more often than the
\* result holds it.
StableHypothesesCommit ==
    \A res \in {r \in ResultsVocab : Fits(r, audio_buffer)} :
        LET p1 == ProcessIterOn(Self, res)
            p2 == ProcessIterOn(p1, res)
            words == Proposed([Self EXCEPT !.transcript_buffer = HypothesisBufferInit],
                              res).new
            both == FlushCommit(Proposed(Self, res)) \o FlushCommit(Proposed(p1, res))
        IN p1.buffer_time_offset = buffer_time_offset =>
              /\ p2.transcript_buffer.buffer = <<>>
              /\ \A i \in DOMAIN both : Count(both[i], both) <= Count(both[i], words)

====
